---- MODULE Spec2Model ----
(***************************************************************************)
(* QskStackBox (src/src/layouts/QskStackBox.cpp): the index state machine  *)
(* of the stack container, its structural hooks and its animator slot.     *)
(*                                                                         *)
(* Indices are 0-based as in the source; the child list is a TLA+ sequence *)
(* (1-based), so the child at index i is list[i + 1].                      *)
(***************************************************************************)
EXTENDS Integers, Sequences, FiniteSets, TLC

\* ---- bounds ------------------------------------------------------------
MaxItems == 2
NumAnimators == 2
MaxSize == 2

ItemIds == 1 .. MaxItems
Animators == 1 .. NumAnimators
IndexArgs == (-1) .. MaxItems

\* nullptr for QQuickItem* and for QskStackBoxAnimator*
NoItem == 0
NoAnimator == 0

\* what window() != nullptr, isVisible() and isInitiallyPainted() return when
\* an operation asks: they belong to the scene graph and change between calls.
\* The condition of line 170 is evaluated left to right and stops at the
\* first false operand, so an operand after a false one is not read (FALSE
\* here).
Envs ==
    { e \in [window : BOOLEAN, visible : BOOLEAN, painted : BOOLEAN] :
          (e.visible => e.window) /\ (e.painted => e.visible) }
NotObserved == [window |-> FALSE, visible |-> FALSE, painted |-> FALSE, read |-> FALSE]
Observed(env) == [window |-> env.window, visible |-> env.visible,
                  painted |-> env.painted, read |-> TRUE]

VARIABLES
    items,              \* the engine's ordered child list (item ids)
    visible,            \* the children whose visible flag is set
    currentIndex,       \* m_data->currentIndex
    animator,           \* m_data->animator (NoAnimator when null)
    anim,               \* per animator: running, startIndex, endIndex, starts
    observed,           \* window(), isVisible(), isInitiallyPainted() as the
                        \* last operation read them (NotObserved: not read)
    calls,              \* animator calls made by the last operation, in order
    emitted,            \* currentIndexChanged values emitted by the last operation
    lastOp,             \* the last operation, its argument, currentIndex before it
    alive,              \* FALSE once ~QskStackBox has run
    geometry,           \* per item: constraint orientation and preferred size
    query               \* the last size query and its result

sizeVars == << geometry, query >>

vars == << items, visible, currentIndex, animator, anim,
           observed, calls, emitted, lastOp, alive, geometry, query >>

\* ---- the layout engine's child list (external collaborator) -------------
itemCount(list) == Len(list)

itemAtIndex(list, index) ==
    IF index >= 0 /\ index < Len(list) THEN list[index + 1] ELSE NoItem

indexOf(list, item) ==
    IF \E i \in 1 .. Len(list) : list[i] = item
    THEN (CHOOSE i \in 1 .. Len(list) : list[i] = item) - 1
    ELSE -1

insertLayoutItem(list, item, index) ==
    SubSeq(list, 1, index) \o << item >> \o SubSeq(list, index + 1, Len(list))

removeItem(list, index) ==
    SubSeq(list, 1, index) \o SubSeq(list, index + 2, Len(list))

\* ---- the state an operation works on -----------------------------------
Call(m, a, arg) == [m |-> m, a |-> a, arg |-> arg]

IdleAnimator == [running |-> FALSE, startIndex |-> -1, endIndex |-> -1, starts |-> 0]

Box ==
    [ currentIndex |-> currentIndex, visible |-> visible,
      animator |-> animator, anim |-> anim,
      observed |-> NotObserved, calls |-> << >>, emitted |-> << >> ]

Commit(b) ==
    /\ currentIndex' = b.currentIndex
    /\ visible' = b.visible
    /\ animator' = b.animator
    /\ anim' = b.anim
    /\ observed' = b.observed
    /\ calls' = b.calls
    /\ emitted' = b.emitted

setVisible(b, item, on) ==
    IF item = NoItem THEN b
    ELSE [b EXCEPT !.visible = IF on THEN @ \cup {item} ELSE @ \ {item}]

emitCurrentIndexChanged(b) ==
    [b EXCEPT !.emitted = Append(@, b.currentIndex)]

\* ---- QskStackBoxAnimator (interface consumed by the container) ----------
\* The transition completes: the child at the start index is hidden, the
\* child at the end index is shown.
AnimatorDone(b, list, a) ==
    LET st == b.anim[a]
        b1 == setVisible(b, itemAtIndex(list, st.startIndex), FALSE)
        b2 == setVisible(b1, itemAtIndex(list, st.endIndex), TRUE)
    IN  [b2 EXCEPT !.anim[a].running = FALSE]

\* stop() completes a running transition at once.  The indices of a stopped
\* animator are not read before setStartIndex and setEndIndex set them again,
\* so they are cleared.  The log entry of stop() carries 1 when start() had
\* been called since the last stop(), else 0.
AnimatorStop(b, list, a) ==
    LET b1 == IF b.anim[a].running THEN AnimatorDone(b, list, a) ELSE b
    IN  [b1 EXCEPT !.anim[a] = IdleAnimator,
                   !.calls = Append(@, Call("stop", a,
                                 IF b.anim[a].starts > 0 THEN 1 ELSE 0))]

AnimatorSetStartIndex(b, a, index) ==
    [b EXCEPT !.anim[a].startIndex = index,
              !.calls = Append(@, Call("setStartIndex", a, index))]

AnimatorSetEndIndex(b, a, index) ==
    [b EXCEPT !.anim[a].endIndex = index,
              !.calls = Append(@, Call("setEndIndex", a, index))]

AnimatorSetWindow(b, a) ==
    [b EXCEPT !.calls = Append(@, Call("setWindow", a, -1))]

AnimatorStart(b, a) ==
    [b EXCEPT !.anim[a].running = TRUE,
              !.anim[a].starts = IF @ < 2 THEN @ + 1 ELSE 2,
              !.calls = Append(@, Call("start", a, -1))]

AnimatorDelete(b, a) ==
    [b EXCEPT !.anim[a] = IdleAnimator,
              !.calls = Append(@, Call("delete", a, -1))]

\* ---- QskStackBox -------------------------------------------------------
effectiveAnimator(b) == b.animator

currentItem == itemAtIndex(items, currentIndex)

CanAnimate(env) == env.window /\ env.visible /\ env.painted

\* variant: only negative indices are clamped
ClampIndex_NegativeOnly(index, count) ==
    IF index < 0 THEN -1 ELSE index

ClampIndex(index, count) ==
    IF index < 0 \/ index >= count THEN -1 ELSE index

\* variant: the running transition is not stopped
StopRunningTransition_Skip(b, list, a) == b

StopRunningTransition(b, list, a) ==
    IF a # NoAnimator THEN AnimatorStop(b, list, a) ELSE b

\* variant: the two indices are handed over the wrong way round
StartTransition_SwappedIndices(b, a, index) ==
    LET b1 == AnimatorSetStartIndex(b, a, index)
        b2 == AnimatorSetEndIndex(b1, a, b.currentIndex)
        b3 == AnimatorSetWindow(b2, a)
    IN  AnimatorStart(b3, a)

\* line 179-182
StartTransition(b, a, index) ==
    LET b1 == AnimatorSetStartIndex(b, a, b.currentIndex)
        b2 == AnimatorSetEndIndex(b1, a, index)
        b3 == AnimatorSetWindow(b2, a)
    IN  AnimatorStart(b3, a)

\* variant: the old current child is not hidden
SwitchVisibility_NoHide(b, list, index) ==
    setVisible(b, itemAtIndex(list, index), TRUE)

\* line 186-192
SwitchVisibility(b, list, index) ==
    LET item1 == itemAtIndex(list, b.currentIndex)
        item2 == itemAtIndex(list, index)
    IN  setVisible(setVisible(b, item1, FALSE), item2, TRUE)

CommitIndex(b, index) ==
    emitCurrentIndexChanged([b EXCEPT !.currentIndex = index])

SwitchTo(b, list, env, index) ==
    LET a  == effectiveAnimator(b)
        b1 == [StopRunningTransition(b, list, a) EXCEPT !.observed = Observed(env)]
        b2 == IF CanAnimate(env) /\ a # NoAnimator
              THEN StartTransition(b1, a, index)
              ELSE SwitchVisibility(b1, list, index)
    IN  CommitIndex(b2, index)

\* variant: no early return when the index is the current one
setCurrentIndex_NoEarlyReturn(b, list, index) ==
    { SwitchTo(b, list, env, ClampIndex(index, itemCount(list))) : env \in Envs }

\* The operations below yield the set of states they can end in: one state
\* for each answer the scene graph can give where the code asks it.
setCurrentIndex(b, list, index) ==
    LET clamped == ClampIndex(index, itemCount(list))
    IN  IF clamped = b.currentIndex
        THEN {b}
        ELSE { SwitchTo(b, list, env, clamped) : env \in Envs }

\* variant: the index is taken one too high
setCurrentItem_OffByOne(b, list, item) ==
    setCurrentIndex(b, list, indexOf(list, item) + 1)

setCurrentItem(b, list, item) == setCurrentIndex(b, list, indexOf(list, item))

\* variant: currentIndex is never shifted
ShiftCurrentIndex_Never(b, index) == b

\* variant: the comparison is the wrong way round
ShiftCurrentIndex_Flipped(b, index) ==
    IF index > b.currentIndex THEN [b EXCEPT !.currentIndex = @ - 1] ELSE b

\* line 129-133: a child before the current one went away
ShiftCurrentIndex(b, index) ==
    IF index < b.currentIndex THEN [b EXCEPT !.currentIndex = @ - 1] ELSE b

\* variant: currentIndex keeps naming the removed slot
ClearCurrentIndex_Skip(b) == b

\* line 124
ClearCurrentIndex(b) == [b EXCEPT !.currentIndex = -1]

\* list is the child list after the removal.  The engine repair at the end
\* (transpose twice) changes nothing this model holds.
layoutItemRemoved(b, list, index) ==
    IF index = b.currentIndex
    THEN LET newIndex == IF b.currentIndex = itemCount(list)
                         THEN b.currentIndex - 1 ELSE b.currentIndex
             b1 == ClearCurrentIndex(b)
         IN  IF newIndex >= 0 THEN setCurrentIndex(b1, list, index) ELSE {b1}
    ELSE {ShiftCurrentIndex(b, index)}

\* variant: a child inserted next to others is not hidden
SelectFirstOrHide_NoHide(b, list, item) ==
    IF itemCount(list) = 1
    THEN emitCurrentIndexChanged(
             setVisible([b EXCEPT !.currentIndex = 0], item, TRUE))
    ELSE b

\* line 311-321; list is the child list after the insertion
SelectFirstOrHide(b, list, item) ==
    IF itemCount(list) = 1
    THEN emitCurrentIndexChanged(
             setVisible([b EXCEPT !.currentIndex = 0], item, TRUE))
    ELSE setVisible(b, item, FALSE)

\* setRetainSizeWhenHidden changes nothing this model holds; index is unused
layoutItemInserted(b, list, item, index) ==
    IF item = NoItem THEN b ELSE SelectFirstOrHide(b, list, item)

\* variant: the attached animator is deleted without being stopped
ReleaseAnimator_NoStop(b, list) ==
    IF b.animator # NoAnimator
    THEN [AnimatorDelete(b, b.animator) EXCEPT !.animator = NoAnimator]
    ELSE b

ReleaseAnimator(b, list) ==
    IF b.animator # NoAnimator
    THEN [AnimatorDelete(AnimatorStop(b, list, b.animator), b.animator)
             EXCEPT !.animator = NoAnimator]
    ELSE b

AdoptAnimator(b, list, a) ==
    IF a # NoAnimator THEN AnimatorStop(b, list, a) ELSE b

setAnimator(b, list, a) ==
    IF b.animator = a THEN b
    ELSE [AdoptAnimator(ReleaseAnimator(b, list), list, a) EXCEPT !.animator = a]

\* ~QskStackBox has an empty body (line 62-64): QObject then deletes the
\* children of the box, the attached animator among them, and nothing of the
\* box is left.
destructor(b) ==
    LET b1 == IF b.animator # NoAnimator THEN AnimatorDelete(b, b.animator) ELSE b
    IN  [b1 EXCEPT !.animator = NoAnimator, !.currentIndex = -1, !.visible = {}]

\* ---- size hints ------------------------------------------------------
\* QskLayoutItem: what the engine knows of a child's size.  orient is the
\* orientation of the dynamic constraint: "Horizontal" when the width depends
\* on the height, "Vertical" when the height depends on the width, "None"
\* without dynamic constraint.
LayoutData ==
    [orient : {"None", "Horizontal", "Vertical"}, w : 1 .. MaxSize, h : 1 .. MaxSize]

DefaultLayout == [orient |-> "None", w |-> 1, h |-> 1]

hasDynamicConstraint(li) == li.orient # "None"

dynamicConstraintOrientation(li) == li.orient

\* a constrained child keeps its area: the quotient, rounded up
Fit(li, across) == (li.w * li.h + across - 1) \div across

\* QskLayoutItem::sizeHint( Qt::PreferredSize, constraint ), the constraint
\* being ( cw, ch ) with -1 for an axis that is left open
sizeHint(li, cw, ch) ==
    IF li.orient = "Horizontal" /\ ch > 0
    THEN [width |-> Fit(li, ch), height |-> ch]
    ELSE IF li.orient = "Vertical" /\ cw > 0
         THEN [width |-> cw, height |-> Fit(li, cw)]
         ELSE [width |-> li.w, height |-> li.h]

\* QskLayoutConstraint::heightForWidth( item, width ) and widthForHeight(
\* item, height ): -1 for an item without that dependency
constrainFunction(type, li, widthOrHeight) ==
    IF type = "HeightForWidth" /\ li.orient = "Vertical" /\ widthOrHeight > 0
    THEN Fit(li, widthOrHeight)
    ELSE IF type = "WidthForHeight" /\ li.orient = "Horizontal" /\ widthOrHeight > 0
         THEN Fit(li, widthOrHeight)
         ELSE -1

\* variant: the comparison is the wrong way round
LargerOf_Flipped(v, constrainedValue) ==
    IF v < constrainedValue THEN v ELSE constrainedValue

\* line 30-31
LargerOf(v, constrainedValue) ==
    IF v > constrainedValue THEN v ELSE constrainedValue

RECURSIVE ConstrainedLoop(_, _, _, _, _)
ConstrainedLoop(type, list, widthOrHeight, i, constrainedValue) ==
    IF i >= itemCount(list) THEN constrainedValue
    ELSE LET item == itemAtIndex(list, i)
         IN  ConstrainedLoop(type, list, widthOrHeight, i + 1,
                 IF item # NoItem
                 THEN LargerOf(constrainFunction(type, geometry[item], widthOrHeight),
                               constrainedValue)
                 ELSE constrainedValue)

qskConstrainedValue(type, list, widthOrHeight) ==
    ConstrainedLoop(type, list, widthOrHeight, 0, -1)

\* QskLayoutConstraint::constrainedMetric for a box without margins
constrainedMetric(type, list, widthOrHeight) ==
    qskConstrainedValue(type, list, widthOrHeight)

heightForWidth(list, width) == constrainedMetric("HeightForWidth", list, width)

widthForHeight(list, height) == constrainedMetric("WidthForHeight", list, height)

\* variant: the height is not widened
WidenBy_WidthOnly(acc, hint) ==
    [acc EXCEPT !.width = IF hint.width >= @ THEN hint.width ELSE @]

\* line 225-229
WidenBy(acc, hint) ==
    [acc EXCEPT !.width = IF hint.width >= @ THEN hint.width ELSE @,
                !.height = IF hint.height >= @ THEN hint.height ELSE @]

\* line 213-231; acc holds width, height, constraintOrientation and the
\* constrained size hint queries made so far
RECURSIVE FirstPass(_, _, _)
FirstPass(list, i, acc) ==
    IF i >= itemCount(list) THEN acc
    ELSE LET li == geometry[list[i + 1]]
         IN  FirstPass(list, i + 1,
                 IF hasDynamicConstraint(li)
                 THEN [acc EXCEPT !.orientations =
                                      @ \cup {dynamicConstraintOrientation(li)}]
                 ELSE WidenBy(acc, sizeHint(li, -1, -1)))

Asked(acc, i, cw, ch) ==
    [acc EXCEPT !.queries = Append(@, [index |-> i, cw |-> cw, ch |-> ch])]

\* line 240-251
RECURSIVE HorizontalLoop(_, _, _, _)
HorizontalLoop(list, i, ch, acc) ==
    IF i >= itemCount(list) THEN acc
    ELSE LET li == geometry[list[i + 1]]
         IN  HorizontalLoop(list, i + 1, ch,
                 IF hasDynamicConstraint(li)
                        /\ dynamicConstraintOrientation(li) = "Horizontal"
                 THEN LET hint == sizeHint(li, -1, ch)
                      IN  [Asked(acc, i, -1, ch)
                              EXCEPT !.width = IF hint.width > @ THEN hint.width ELSE @]
                 ELSE acc)

\* line 259-270
RECURSIVE VerticalLoop(_, _, _, _)
VerticalLoop(list, i, cw, acc) ==
    IF i >= itemCount(list) THEN acc
    ELSE LET li == geometry[list[i + 1]]
         IN  VerticalLoop(list, i + 1, cw,
                 IF hasDynamicConstraint(li)
                        /\ dynamicConstraintOrientation(li) = "Vertical"
                 THEN LET hint == sizeHint(li, cw, -1)
                      IN  [Asked(acc, i, cw, -1)
                              EXCEPT !.height = IF hint.height > @ THEN hint.height ELSE @]
                 ELSE acc)

\* line 235-252: the constraint is ( -1, height )
HorizontalPass(list, acc) ==
    IF "Horizontal" \in acc.orientations
    THEN HorizontalLoop(list, 0, acc.height, acc)
    ELSE acc

\* variant: the width found in the first pass is passed on to the second
\* loop, not the width the first loop has widened
SecondPass_FirstPassWidth(list, acc) ==
    LET h == HorizontalPass(list, acc)
    IN  IF "Vertical" \in h.orientations
        THEN VerticalLoop(list, 0, acc.width, h)
        ELSE h

\* line 235-271: the constraint of the second loop is ( width, -1 ), width
\* being what the first loop has left
SecondPass(list, acc) ==
    LET h == HorizontalPass(list, acc)
    IN  IF "Vertical" \in h.orientations
        THEN VerticalLoop(list, 0, h.width, h)
        ELSE h

layoutItemsSizeHint(list) ==
    SecondPass(list, FirstPass(list, 0,
        [width |-> -1, height |-> -1, orientations |-> {}, queries |-> << >>]))

NoQuery == [kind |-> "none", arg |-> -1, width |-> -1, height |-> -1, queries |-> << >>]

\* ---- initial state and steps -------------------------------------------
Op(name, arg) == [op |-> name, arg |-> arg, prevIndex |-> currentIndex]

Init ==
    /\ items = << >>
    /\ visible = {}
    /\ currentIndex = -1
    /\ animator = NoAnimator
    /\ anim = [a \in Animators |-> IdleAnimator]
    /\ observed = NotObserved
    /\ calls = << >>
    /\ emitted = << >>
    /\ lastOp = [op |-> "init", arg |-> -1, prevIndex |-> -1]
    /\ alive = TRUE
    /\ geometry = [i \in ItemIds |-> DefaultLayout]
    /\ query = NoQuery

\* QskLayout::insertItem: the engine inserts, then calls the hook.  A newly
\* created item has its visible flag set.
InsertItem(item, index) ==
    /\ alive
    /\ Len(items) < MaxItems
    /\ item \notin { items[i] : i \in 1 .. Len(items) }
    /\ index \in 0 .. Len(items)
    /\ items' = insertLayoutItem(items, item, index)
    /\ Commit(layoutItemInserted(setVisible(Box, item, TRUE), items', item, index))
    /\ lastOp' = Op("insert", index)
    /\ UNCHANGED << alive, sizeVars >>

\* QskLayout::removeAt: the engine removes, then calls the hook.  The removed
\* item is no child any more.
RemoveAt(index) ==
    /\ alive
    /\ index \in 0 .. (Len(items) - 1)
    /\ items' = removeItem(items, index)
    /\ \E b \in layoutItemRemoved(setVisible(Box, items[index + 1], FALSE),
                                   items', index) : Commit(b)
    /\ lastOp' = Op("remove", index)
    /\ UNCHANGED << alive, sizeVars >>

CallSetCurrentIndex(index) ==
    /\ alive
    /\ \E b \in setCurrentIndex(Box, items, index) : Commit(b)
    /\ lastOp' = Op("setCurrentIndex", index)
    /\ UNCHANGED << items, alive, sizeVars >>

CallSetCurrentItem(item) ==
    /\ alive
    /\ \E b \in setCurrentItem(Box, items, item) : Commit(b)
    /\ lastOp' = Op("setCurrentItem", item)
    /\ UNCHANGED << items, alive, sizeVars >>

\* a is the attached instance, nullptr, or a newly created idle instance
CallSetAnimator(a) ==
    /\ alive
    /\ Commit(setAnimator(Box, items, a))
    /\ lastOp' = Op("setAnimator", a)
    /\ UNCHANGED << items, alive, sizeVars >>

\* the running transition reaches its end by itself
AnimatorFinished ==
    /\ alive
    /\ animator # NoAnimator
    /\ anim[animator].running
    /\ Commit(AnimatorDone(Box, items, animator))
    /\ lastOp' = Op("animatorFinished", animator)
    /\ UNCHANGED << items, alive, sizeVars >>

\* the box is destroyed
Destroy ==
    /\ alive
    /\ alive' = FALSE
    /\ items' = << >>
    /\ Commit(destructor(Box))
    /\ lastOp' = Op("destroy", -1)
    /\ UNCHANGED sizeVars

Next ==
    \/ \E item \in ItemIds, index \in 0 .. MaxItems : InsertItem(item, index)
    \/ \E index \in 0 .. (MaxItems - 1) : RemoveAt(index)
    \/ \E index \in IndexArgs : CallSetCurrentIndex(index)
    \/ \E item \in ItemIds \cup {NoItem} : CallSetCurrentItem(item)
    \/ \E a \in Animators \cup {NoAnimator} : CallSetAnimator(a)
    \/ AnimatorFinished
    \/ Destroy

Spec == Init /\ [][Next]_vars

\* the four index operations only: no animator is ever attached
NextIndex ==
    \/ \E item \in ItemIds, index \in 0 .. MaxItems : InsertItem(item, index)
    \/ \E index \in 0 .. (MaxItems - 1) : RemoveAt(index)
    \/ \E index \in IndexArgs : CallSetCurrentIndex(index)
    \/ \E item \in ItemIds \cup {NoItem} : CallSetCurrentItem(item)

SpecIndex == Init /\ [][NextIndex]_vars

\* ---- size queries on a stack of children --------------------------------
\* A box after its children 1 .. n were appended and one of them, or none,
\* was made the current one; the children have any layout data.
InitSize ==
    /\ \E n \in 0 .. MaxItems :
          /\ items = [i \in 1 .. n |-> i]
          /\ currentIndex \in (-1) .. (n - 1)
          /\ geometry \in [ItemIds -> LayoutData]
          /\ \A i \in ItemIds : i > n => geometry[i] = DefaultLayout
    /\ visible = IF currentIndex = -1 THEN {} ELSE {items[currentIndex + 1]}
    /\ animator = NoAnimator
    /\ anim = [a \in Animators |-> IdleAnimator]
    /\ observed = NotObserved
    /\ calls = << >>
    /\ emitted = << >>
    /\ lastOp = [op |-> "init", arg |-> -1, prevIndex |-> -1]
    /\ alive = TRUE
    /\ query = NoQuery

QuerySizeHint ==
    /\ alive
    /\ LET r == layoutItemsSizeHint(items)
       IN  query' = [kind |-> "sizeHint", arg |-> -1, width |-> r.width,
                     height |-> r.height, queries |-> r.queries]
    /\ UNCHANGED << items, visible, currentIndex, animator, anim,
                    observed, calls, emitted, lastOp, alive, geometry >>

QueryHeightForWidth(width) ==
    /\ alive
    /\ query' = [kind |-> "heightForWidth", arg |-> width, width |-> width,
                 height |-> heightForWidth(items, width), queries |-> << >>]
    /\ UNCHANGED << items, visible, currentIndex, animator, anim,
                    observed, calls, emitted, lastOp, alive, geometry >>

QueryWidthForHeight(height) ==
    /\ alive
    /\ query' = [kind |-> "widthForHeight", arg |-> height, height |-> height,
                 width |-> widthForHeight(items, height), queries |-> << >>]
    /\ UNCHANGED << items, visible, currentIndex, animator, anim,
                    observed, calls, emitted, lastOp, alive, geometry >>

NextSize ==
    \/ QuerySizeHint
    \/ \E width \in 1 .. MaxSize : QueryHeightForWidth(width)
    \/ \E height \in 1 .. MaxSize : QueryWidthForHeight(height)

SpecSize == InitSize /\ [][NextSize]_vars

TypeOK ==
    /\ Len(items) <= MaxItems
    /\ visible \subseteq { items[i] : i \in 1 .. Len(items) }
    /\ \A a \in Animators \ {animator} : anim[a] = IdleAnimator

\* ---- properties --------------------------------------------------------
OutOfRange(index, count) == index < 0 \/ index >= count

\* the method and the receiver of each logged call, in order
Methods(log) == [i \in DOMAIN log |-> << log[i].m, log[i].a >>]

\* C1: in every state reached by insertions, removals, setCurrentIndex and
\* setCurrentItem at most one child is visible, the visible child is the
\* child at currentIndex, and none is visible when currentIndex is -1.
C1_VisibleChildIsCurrent ==
    /\ Cardinality(visible) <= 1
    /\ \A v \in visible : currentIndex # -1 /\ v = itemAtIndex(items, currentIndex)

\* C2: currentIndex is -1 or a valid index of the child list, and -1 when
\* the list is empty.
C2_CurrentIndexInRange ==
    /\ currentIndex \in (-1) .. (Len(items) - 1)
    /\ Len(items) = 0 => currentIndex = -1

\* a removal before the last child, which was the current one, took place
C2_Witness ==
    /\ lastOp.op = "remove"
    /\ lastOp.prevIndex = Len(items)
    /\ lastOp.arg < lastOp.prevIndex
    /\ currentIndex = Len(items) - 1

\* C3: setCurrentIndex(i) with i outside [0, itemCount) leaves currentIndex
\* at -1.
C3_OutOfRangeClears ==
    (lastOp.op = "setCurrentIndex" /\ OutOfRange(lastOp.arg, Len(items)))
        => currentIndex = -1

\* an index past the end was set while a child was current
C3_Witness ==
    /\ lastOp.op = "setCurrentIndex"
    /\ lastOp.arg >= Len(items)
    /\ lastOp.prevIndex >= 0
    /\ currentIndex = -1
    /\ emitted = << -1 >>

\* C4: removing the current child selects the same index if a child still
\* occupies it, else the last remaining index, else -1, and emits exactly one
\* notification.
C4_RemoveCurrentSelectsNeighbour ==
    (lastOp.op = "remove" /\ lastOp.arg = lastOp.prevIndex)
        => /\ currentIndex = IF lastOp.prevIndex < Len(items)
                             THEN lastOp.prevIndex ELSE Len(items) - 1
           /\ Len(emitted) = 1

\* C5: an operation that changes currentIndex emits exactly one notification
\* carrying the new value; an operation that does not change it emits none.
C5_OneNotificationPerChange ==
    lastOp.op \in {"setCurrentIndex", "setCurrentItem", "insert", "remove"}
        => IF currentIndex # lastOp.prevIndex
           THEN emitted = << currentIndex >>
           ELSE emitted = << >>

\* C6: removing a child other than the current one decrements currentIndex
\* when the removed index is smaller and leaves it when it is greater; the
\* child at currentIndex is the same child as before, as visible as before.
C6_RemoveOtherKeepsCurrent ==
    [][ (lastOp'.op = "remove" /\ lastOp'.arg # currentIndex)
            => /\ lastOp'.arg < currentIndex => currentIndex' = currentIndex - 1
               /\ lastOp'.arg > currentIndex => currentIndex' = currentIndex
               /\ itemAtIndex(items', currentIndex') = itemAtIndex(items, currentIndex)
               /\ (itemAtIndex(items', currentIndex') \in visible')
                      <=> (itemAtIndex(items, currentIndex) \in visible) ]_vars

\* a child before the current one was removed
C6_Witness ==
    /\ lastOp.op = "remove"
    /\ lastOp.arg < lastOp.prevIndex
    /\ currentIndex = lastOp.prevIndex - 1
    /\ itemAtIndex(items, currentIndex) \in visible

\* C7: the insertion that makes the count 1 sets currentIndex to 0, shows
\* the child and emits one notification; an insertion next to other children
\* leaves currentIndex, hides the new child and emits nothing.
C7_InsertSelectsOnlyFirst ==
    lastOp.op = "insert"
        => IF Len(items) = 1
           THEN currentIndex = 0 /\ items[1] \in visible /\ emitted = << 0 >>
           ELSE /\ currentIndex = lastOp.prevIndex
                /\ items[lastOp.arg + 1] \notin visible
                /\ emitted = << >>

\* a child was inserted next to a current child
C7_Witness ==
    /\ lastOp.op = "insert"
    /\ Len(items) >= 2
    /\ lastOp.prevIndex >= 0
    /\ currentIndex = lastOp.prevIndex
    /\ items[lastOp.arg + 1] \notin visible

\* C8: setCurrentIndex(currentIndex()), and setCurrentIndex of an index out
\* of range while currentIndex is -1, changes nothing, emits nothing and
\* calls no animator method.
C8_SetCurrentIsNoOp ==
    [][ ( /\ lastOp'.op = "setCurrentIndex"
          /\ \/ lastOp'.arg = currentIndex
             \/ currentIndex = -1 /\ OutOfRange(lastOp'.arg, Len(items)) )
            => /\ UNCHANGED << items, visible, currentIndex, animator, anim >>
               /\ calls' = << >>
               /\ emitted' = << >> ]_vars

\* the current index was set again while a transition was running
C8_Witness ==
    /\ lastOp.op = "setCurrentIndex"
    /\ lastOp.arg = lastOp.prevIndex
    /\ currentIndex = lastOp.arg
    /\ currentIndex >= 0
    /\ animator # NoAnimator
    /\ anim[animator].running
    /\ calls = << >>

\* C9: no animator gets start() twice without a stop() in between, and at
\* most one transition is running.
C9_NoStartWithoutStop ==
    /\ \A a \in Animators : anim[a].starts <= 1
    /\ Cardinality({ a \in Animators : anim[a].running \/ anim[a].starts > 0 }) <= 1

\* a transition was started by an operation that first stopped one in flight
C9_Witness ==
    /\ animator # NoAnimator
    /\ Len(calls) = 5
    /\ calls[1] = Call("stop", animator, 1)
    /\ calls[5] = Call("start", animator, -1)
    /\ anim[animator].running
    /\ anim[animator].starts = 1

\* C10: setAnimator(a) with another animator attached stops the attached one
\* once, deletes it, stops a (when not null) and attaches a, and never
\* starts anything; with the attached instance it calls and changes nothing.
C10_SetAnimatorStopsAndReplaces ==
    [][ lastOp'.op = "setAnimator"
            => IF lastOp'.arg = animator
               THEN /\ calls' = << >>
                    /\ emitted' = << >>
                    /\ UNCHANGED << items, visible, currentIndex, animator, anim >>
               ELSE /\ animator' = lastOp'.arg
                    /\ Methods(calls') =
                          (IF animator # NoAnimator
                           THEN << << "stop", animator >>, << "delete", animator >> >>
                           ELSE << >>)
                          \o
                          (IF lastOp'.arg # NoAnimator
                           THEN << << "stop", lastOp'.arg >> >>
                           ELSE << >>) ]_vars

\* an animator in flight was replaced by another one
C10_Witness ==
    /\ lastOp.op = "setAnimator"
    /\ animator = lastOp.arg
    /\ animator # NoAnimator
    /\ Len(calls) = 3
    /\ calls[1].m = "stop" /\ calls[1].a # animator /\ calls[1].arg = 1
    /\ calls[2] = Call("delete", calls[1].a, -1)
    /\ calls[3] = Call("stop", animator, 0)

\* C11: an animator attached to the box gets stop() from the box before it is
\* destroyed, when it is replaced and when the box itself is destroyed.
C11_StopBeforeDestruction ==
    \A i \in DOMAIN calls :
        calls[i].m = "delete"
            => i > 1 /\ calls[i - 1].m = "stop" /\ calls[i - 1].a = calls[i].a

\* C12: after setCurrentItem(v) with v a child, currentIndex is the index of
\* v and currentItem() is v; with v no child or null, currentIndex is -1 and
\* currentItem() is no item; currentItem() of an empty stack is no item.
C12_SetCurrentItemSelectsItem ==
    /\ lastOp.op = "setCurrentItem"
           => IF \E i \in 1 .. Len(items) : items[i] = lastOp.arg
              THEN /\ currentIndex \in 0 .. (Len(items) - 1)
                   /\ items[currentIndex + 1] = lastOp.arg
                   /\ currentItem = lastOp.arg
              ELSE currentIndex = -1 /\ currentItem = NoItem
    /\ Len(items) = 0 => currentItem = NoItem

\* the second child was made current by setCurrentItem
C12_Witness ==
    /\ lastOp.op = "setCurrentItem"
    /\ Len(items) = 2
    /\ lastOp.arg = items[2]
    /\ lastOp.prevIndex = 0
    /\ currentIndex = 1
    /\ currentItem = lastOp.arg

\* ---- properties of the size queries -------------------------------------
MaxOf(S) == CHOOSE m \in S : \A x \in S : x <= m

LayoutOf(i) == geometry[items[i + 1]]

Indices == 0 .. (Len(items) - 1)

IndicesOf(orient) == { i \in Indices : LayoutOf(i).orient = orient }

\* the size after the loop over the children without dynamic constraint
FirstPassWidth == MaxOf({-1} \cup { LayoutOf(i).w : i \in IndicesOf("None") })

FirstPassHeight == MaxOf({-1} \cup { LayoutOf(i).h : i \in IndicesOf("None") })

WidthAfterHorizontal ==
    MaxOf({FirstPassWidth}
          \cup { sizeHint(LayoutOf(i), -1, FirstPassHeight).width :
                     i \in IndicesOf("Horizontal") })

\* C13: with children that have no dynamic constraint the preferred size is
\* the largest preferred width and the largest preferred height of all
\* children, whichever child is current or visible.
C13_PreferredSizeIsMaximum ==
    (query.kind = "sizeHint" /\ Len(items) > 0 /\ IndicesOf("None") = Indices)
        => /\ query.width = MaxOf({ LayoutOf(i).w : i \in Indices })
           /\ query.height = MaxOf({ LayoutOf(i).h : i \in Indices })

\* a wide and a tall child, the second one current: the hint takes the width
\* of the hidden child and the height of the current one
C13_Witness ==
    /\ query.kind = "sizeHint"
    /\ Len(items) = 2
    /\ currentIndex = 1
    /\ visible = {items[2]}
    /\ LayoutOf(0) = [orient |-> "None", w |-> 2, h |-> 1]
    /\ LayoutOf(1) = [orient |-> "None", w |-> 1, h |-> 2]
    /\ query.width = 2
    /\ query.height = 2

\* C14: heightForWidth(w) is the largest height-for-width of all children,
\* hidden ones included, and widthForHeight(h) the largest width-for-height.
C14_ConstrainedMetricIsMaximum ==
    /\ (query.kind = "heightForWidth" /\ Len(items) > 0)
           => query.height =
                  MaxOf({ constrainFunction("HeightForWidth", LayoutOf(i), query.arg) :
                              i \in Indices })
    /\ (query.kind = "widthForHeight" /\ Len(items) > 0)
           => query.width =
                  MaxOf({ constrainFunction("WidthForHeight", LayoutOf(i), query.arg) :
                              i \in Indices })

\* the answer comes from the hidden child, the current one asks for less
C14_Witness ==
    /\ query.kind = "heightForWidth"
    /\ Len(items) = 2
    /\ currentIndex = 0
    /\ visible = {items[1]}
    /\ LayoutOf(0).orient = "Vertical"
    /\ LayoutOf(1).orient = "Vertical"
    /\ query.height = constrainFunction("HeightForWidth", LayoutOf(1), query.arg)
    /\ query.height > constrainFunction("HeightForWidth", LayoutOf(0), query.arg)

\* C20 as stated: in the second pass a horizontally constrained child is
\* asked with the height fixed at the first-pass height, a vertically
\* constrained child with the width fixed at the first-pass width, and the
\* result is on neither axis smaller than the first-pass result.
C20_SecondPassUsesFirstPassSize ==
    query.kind = "sizeHint"
        => /\ \A k \in DOMAIN query.queries :
                 LET q == query.queries[k]
                 IN  /\ LayoutOf(q.index).orient = "Horizontal"
                            => q.ch = FirstPassHeight
                     /\ LayoutOf(q.index).orient = "Vertical"
                            => q.cw = FirstPassWidth
           /\ query.width >= FirstPassWidth
           /\ query.height >= FirstPassHeight

\* C20, amended: every constrained child is asked once; a horizontally
\* constrained child with the height fixed at the first-pass height and the
\* width open, a vertically constrained child with the height open and the
\* width fixed at the width after the horizontal loop, that is the
\* first-pass width widened by the horizontally constrained children; the
\* result is on neither axis smaller than the first-pass result.
C20_SecondPassUsesWidenedWidth ==
    query.kind = "sizeHint"
        => /\ \A k \in DOMAIN query.queries :
                 LET q == query.queries[k]
                 IN  /\ LayoutOf(q.index).orient = "Horizontal"
                            => q.cw = -1 /\ q.ch = FirstPassHeight
                     /\ LayoutOf(q.index).orient = "Vertical"
                            => q.cw = WidthAfterHorizontal /\ q.ch = -1
           /\ \A i \in Indices \ IndicesOf("None") :
                 Cardinality({ k \in DOMAIN query.queries :
                                   query.queries[k].index = i }) = 1
           /\ \A k \in DOMAIN query.queries :
                 query.queries[k].index \in Indices \ IndicesOf("None")
           /\ query.width = WidthAfterHorizontal
           /\ query.width >= FirstPassWidth
           /\ query.height >= FirstPassHeight

\* a horizontally and a vertically constrained child: the second one is
\* asked with a width the first one has widened
C20_Witness ==
    /\ query.kind = "sizeHint"
    /\ IndicesOf("Horizontal") # {}
    /\ \E k \in DOMAIN query.queries :
          /\ LayoutOf(query.queries[k].index).orient = "Vertical"
          /\ query.queries[k].cw = WidthAfterHorizontal
          /\ query.queries[k].cw > FirstPassWidth

\* ---- properties of switching and of structural changes -------------------
\* C15: when setCurrentIndex changes the index and no animator is attached,
\* or the box has no window, is not visible or was not painted yet, the
\* child that was current is hidden and the new current child is visible on
\* return, and start() was called on no animator.
C15_SynchronousSwitch ==
    (/\ lastOp.op = "setCurrentIndex"
     /\ currentIndex # lastOp.prevIndex
     /\ (animator = NoAnimator \/ ~CanAnimate(observed)))
        => /\ itemAtIndex(items, lastOp.prevIndex) \notin visible
           /\ currentIndex # -1 => itemAtIndex(items, currentIndex) \in visible
           /\ \A k \in DOMAIN calls : calls[k].m # "start"

\* an animator is attached, the box has a window but is not visible: the
\* second child replaced the first one at once
C15_Witness ==
    /\ lastOp.op = "setCurrentIndex"
    /\ animator # NoAnimator
    /\ observed.window /\ ~observed.visible
    /\ lastOp.prevIndex = 0
    /\ currentIndex = 1
    /\ visible = {items[2]}
    /\ Methods(calls) = << << "stop", animator >> >>

\* C16: when setCurrentIndex changes the index with a window, visible,
\* painted and an animator attached, the animator receives stop(),
\* setStartIndex(old index), setEndIndex(new index), setWindow(), start(), in
\* this order and once each; the box changes no visibility itself (what
\* changes is what stop() completes of a transition that was running);
\* currentIndex is the new index and one notification carries it.
C16_AnimatedSwitch ==
    [][ (/\ lastOp'.op = "setCurrentIndex"
         /\ currentIndex' # currentIndex
         /\ animator # NoAnimator
         /\ CanAnimate(observed'))
            => /\ Methods(calls') =
                      << << "stop", animator >>, << "setStartIndex", animator >>,
                         << "setEndIndex", animator >>, << "setWindow", animator >>,
                         << "start", animator >> >>
               /\ calls'[2].arg = currentIndex
               /\ calls'[3].arg = currentIndex'
               /\ visible' = IF anim[animator].running
                             THEN AnimatorDone(Box, items, animator).visible
                             ELSE visible
               /\ currentIndex' = ClampIndex(lastOp'.arg, Len(items))
               /\ emitted' = << currentIndex' >>
               /\ anim'[animator].running ]_vars

\* a transition from the first to the second child was started; the first
\* child is still the visible one
C16_Witness ==
    /\ lastOp.op = "setCurrentIndex"
    /\ animator # NoAnimator
    /\ CanAnimate(observed)
    /\ lastOp.prevIndex = 0
    /\ currentIndex = 1
    /\ Len(calls) = 5
    /\ anim[animator].running
    /\ anim[animator].startIndex = 0
    /\ anim[animator].endIndex = 1
    /\ visible = {items[1]}
    /\ emitted = << 1 >>

\* C17: an insertion at any index while other children exist keeps the
\* current child: the child at currentIndex after the insertion is the
\* child that was at currentIndex before it.
C17_InsertKeepsCurrentChild ==
    [][ (/\ lastOp'.op = "insert"
         /\ Len(items) >= 1
         /\ Len(items') = Len(items) + 1)
            => itemAtIndex(items', currentIndex') = itemAtIndex(items, currentIndex)
      ]_vars

\* C18: when the current child is removed currentIndex is cleared before the
\* replacement is selected: every start index handed to the animator is -1,
\* the child that now sits in the removed slot, if there is one, becomes the
\* current one, with start index -1 when the animator is started, and it is
\* not hidden when it was visible (a transition that stop() completes set
\* aside).
C18_RemoveCurrentClearsFirst ==
    [][ (/\ lastOp'.op = "remove"
         /\ lastOp'.arg = currentIndex
         /\ Len(items') = Len(items) - 1)
            => LET slot == itemAtIndex(items', lastOp'.arg)
               IN  /\ \A k \in DOMAIN calls' :
                          calls'[k].m = "setStartIndex" => calls'[k].arg = -1
                   /\ slot # NoItem
                          => /\ currentIndex' = lastOp'.arg
                             /\ (animator # NoAnimator /\ CanAnimate(observed'))
                                    => /\ Len(calls') = 5
                                       /\ calls'[2] = Call("setStartIndex", animator, -1)
                                       /\ anim'[animator].startIndex = -1
                             /\ (animator = NoAnimator \/ ~CanAnimate(observed'))
                                    => slot \in visible'
                             /\ (slot \in visible
                                    /\ (animator = NoAnimator \/ ~anim[animator].running))
                                    => slot \in visible' ]_vars

\* the first of two children, the current one, was removed; the transition
\* to the child that moved into its slot starts from -1
C18_Witness ==
    /\ lastOp.op = "remove"
    /\ lastOp.arg = 0
    /\ lastOp.prevIndex = 0
    /\ Len(items) = 1
    /\ currentIndex = 0
    /\ animator # NoAnimator
    /\ CanAnimate(observed)
    /\ anim[animator].running
    /\ anim[animator].startIndex = -1
    /\ anim[animator].endIndex = 0

\* C19: while a transition is in flight the end index of the animator is
\* currentIndex, also after insertions and removals.
C19_EndIndexIsCurrentIndex ==
    \A a \in Animators :
        (anim[a].running /\ anim[a].starts > 0) => anim[a].endIndex = currentIndex

====
